---- MODULE Spec2Model ----
(***************************************************************************)
(* tebata: callbacks reserved on a Tebata instance are run by its          *)
(* listening goroutine when a subscribed OS signal arrives.                *)
(*                                                                         *)
(* The model follows src/tebata.go, lines 107-251 (the version with the    *)
(* context, the mutex and the argument checks in Reserve).                 *)
(*                                                                         *)
(* Go semantics the model relies on:                                       *)
(*  - a select with several ready cases takes any one of them;             *)
(*  - a receive from a closed channel yields what is still buffered, and   *)
(*    after that the zero value, at once;                                  *)
(*  - close of a closed channel, a send on a closed channel, and           *)
(*    reflect.Value.Call with a zero Value argument panic;                 *)
(*  - a deferred Unlock runs while a panic unwinds, and a panic nobody     *)
(*    recovers ends the whole process;                                     *)
(*  - sync.Mutex is not re-entrant: Lock waits for Unlock whoever holds   *)
(*    the mutex, the calling goroutine included;                           *)
(*  - os/signal posts a signal to every subscribed channel without         *)
(*    blocking (a full channel drops it), and signal.Stop returns only     *)
(*    when no further post to the channel can happen.                      *)
(***************************************************************************)
EXTENDS Naturals, Sequences, FiniteSets

\* ------------------------------------------------------------ bounds

\* Most Reserve calls that succeed in a run of the concurrent specification.
MaxReserved == 2
\* Most Reserve calls that succeed in a run that enumerates Reserve's inputs.
MaxReservedWide == 1
\* Longest argument list handed to Reserve when its inputs are enumerated.
MaxArgs == 2

\* ------------------------------------------------------ values, types

\* The two instances of the tests (s1, s2).
Dispatchers == {1, 2}

\* os.Signal values the instances are constructed with.
Signals == {"SIGINT", "SIGTERM"}

\* The signals each instance passes to New: New(SIGINT, SIGTERM), New(SIGINT).
SignalSet(d) == IF d = 1 THEN {"SIGINT", "SIGTERM"} ELSE {"SIGINT"}

\* Argument values: an int, a string, a *string, and the untyped nil.
Values == {"i1", "s1", "p1", "nil"}

\* reflect.TypeOf of a non-nil argument value.
TypeOf(v) ==
  CASE v = "i1" -> "int"
    [] v = "s1" -> "string"
    [] v = "p1" -> "*string"

\* Function values that can be handed to Reserve, with their parameter types.
\*   hello func(), boom func() (its body panics), deref func(*string),
\*   logAny func(any), sum func(int, int), greet func(string, int),
\*   again func() (its body calls Reserve on the instance it is reserved on)
Funcs == {"hello", "boom", "deref", "logAny", "sum", "greet", "again"}

\* funcType.In(i), as the sequence of all parameter types.
Params(f) ==
  CASE f = "hello"  -> << >>
    [] f = "boom"   -> << >>
    [] f = "deref"  -> << "*string" >>
    [] f = "logAny" -> << "any" >>
    [] f = "sum"    -> << "int", "int" >>
    [] f = "greet"  -> << "string", "int" >>
    [] f = "again"  -> << >>

\* Whether the callback's own body raises a fault when it runs.
BodyPanics(f) == f = "boom"

\* Whether the callback's body calls Reserve on its own instance.
BodyReserves(f) == f = "again"

\* The call such a body makes: s.Reserve(hello).
ReservedByCallback == [function |-> "hello", args |-> << >>]

\* reflect.ValueOf(function).Kind(): Func for a function value, Invalid for
\* nil, the value's kind otherwise.
Kind(x) ==
  IF x \in Funcs THEN "Func"
  ELSE IF x = "nil" THEN "Invalid"
  ELSE TypeOf(x)

\* argType.AssignableTo(paramType): identical types, or an interface type the
\* argument's type implements (every type implements any).
AssignableTo(argType, paramType) ==
  argType = paramType \/ paramType = "any"

\* ------------------------------------------------------------ Reserve

\* CheckParams without the nil case: a nil argument is compared like any
\* other, and fits only a parameter that can hold nil.
RECURSIVE CheckParamsNilCompared(_, _, _)
CheckParamsNilCompared(function, args, i) ==
  IF i > Len(Params(function)) THEN "nil"
  ELSE IF args[i] = "nil" /\ Params(function)[i] \notin {"*string", "any"}
       THEN "ErrTypeMismatch"
  ELSE IF args[i] # "nil" /\ ~AssignableTo(TypeOf(args[i]), Params(function)[i])
       THEN "ErrTypeMismatch"
  ELSE CheckParamsNilCompared(function, args, i + 1)

\* The loop over the parameters, from index i on (indices start at 1 here).
RECURSIVE CheckParams(_, _, _)
CheckParams(function, args, i) ==
  IF i > Len(Params(function)) THEN "nil"
  ELSE IF args[i] = "nil" THEN CheckParams(function, args, i + 1)
  ELSE IF ~AssignableTo(TypeOf(args[i]), Params(function)[i])
       THEN "ErrTypeMismatch"
  ELSE CheckParams(function, args, i + 1)

\* ReserveCheck with the function check alone, as Reserve was before the
\* argument checks were added.
ReserveCheckFuncOnly(function, args) ==
  IF Kind(function) # "Func" THEN "ErrInvalidFunction" ELSE "nil"

\* The error Reserve returns ("nil": none), in the order the code checks.
ReserveCheck(function, args) ==
  IF Kind(function) # "Func" THEN "ErrInvalidFunction"
  ELSE LET numParams == Len(Params(function))
           numArgs   == Len(args)
       IN IF numArgs < numParams THEN "ErrTooFewArgs"
          ELSE IF numArgs > numParams THEN "ErrTooManyArgs"
          ELSE CheckParams(function, args, 1)

\* functionData{function, args}
FunctionData(function, args) == [function |-> function, args |-> args]

\* ReserveAppend putting the new entry first.
ReservePrepend(reserved, function, args) ==
  << FunctionData(function, args) >> \o reserved

\* s.reservedFunctions after Reserve's checks have passed.
ReserveAppend(reserved, function, args) ==
  Append(reserved, FunctionData(function, args))

\* ReserveResult appending before the checks decide.
ReserveResultStored(reserved, function, args, err) ==
  ReserveAppend(reserved, function, args)

\* s.reservedFunctions when Reserve returns err.
ReserveResult(reserved, function, args, err) ==
  IF err = "nil" THEN ReserveAppend(reserved, function, args) ELSE reserved

\* ---------------------------------------------------------- dispatch

\* CallOutcome with a recover around the call: a fault raised by the
\* callback's body is swallowed and the call counts as returned.
CallOutcomeRecovered(fd) ==
  LET in == fd.args
      t  == Params(fd.function)
  IN IF Len(in) < Len(t) THEN "reflect: Call with too few input arguments"
     ELSE IF Len(in) > Len(t) THEN "reflect: Call with too many input arguments"
     ELSE IF \E i \in 1..Len(in) : in[i] = "nil"
          THEN "reflect: Call using zero Value argument"
     ELSE IF \E i \in 1..Len(in) : ~AssignableTo(TypeOf(in[i]), t[i])
          THEN "reflect: Call using wrong type"
     ELSE "returned"

\* function.Call(args) on one entry: reflect panics before the call on a
\* wrong argument count, on a zero Value (a nil argument) and on an argument
\* that is not assignable; otherwise the function runs, and its body may panic.
CallOutcome(fd) ==
  LET in == fd.args
      t  == Params(fd.function)
  IN IF Len(in) < Len(t) THEN "reflect: Call with too few input arguments"
     ELSE IF Len(in) > Len(t) THEN "reflect: Call with too many input arguments"
     ELSE IF \E i \in 1..Len(in) : in[i] = "nil"
          THEN "reflect: Call using zero Value argument"
     ELSE IF \E i \in 1..Len(in) : ~AssignableTo(TypeOf(in[i]), t[i])
          THEN "reflect: Call using wrong type"
     ELSE IF BodyPanics(fd.function) THEN "callback panic"
     ELSE "returned"

\* Whether function.Call got as far as running the function.
Invoked(fd) == CallOutcome(fd) \in {"returned", "callback panic"}

\* ------------------------------------------------------------ channel

\* make(chan os.Signal, 1)
ChanCap == 1

\* What a receive case can take: something buffered, or closure.
RecvReady(ch) == ch.buf # << >> \/ ch.closed

\* The channel after a receive.
RecvChan(ch) == IF ch.buf # << >> THEN [ch EXCEPT !.buf = Tail(ch.buf)] ELSE ch

\* The second result of "v, ok := <-ch": true for a buffered value, false for
\* closure.
RecvOk(ch) == ch.buf # << >>

\* NotifySend that queues every signal, however many are waiting.
NotifySendQueued(ch, sig) == [ch EXCEPT !.buf = Append(ch.buf, sig)]

\* os/signal's non-blocking send: "select { case c <- sig: default: }".
NotifySend(ch, sig) ==
  IF Len(ch.buf) < ChanCap THEN [ch EXCEPT !.buf = Append(ch.buf, sig)] ELSE ch

\* ------------------------------------------------------------- state

VARIABLES
  reservedFunctions,  \* s.reservedFunctions, per instance
  ctxDone,            \* s.ctx is cancelled, per instance
  signalCh,           \* s.signalCh: [buf, closed], per instance
  handlers,           \* instances whose channel os/signal still posts to
  mutex,              \* s.mutex: "unlocked", "listen" or "caller"
  lpc,                \* the listening goroutine: select, exec, range, stopped
  idx,                \* exec's loop position (0 outside the loop)
  ranged,             \* the slice exec's range statement iterates
  invoked,            \* the entries the running dispatch has invoked so far
  callerpc,           \* the calling goroutine: idle, or inside Reserve / Close
  accepted,           \* the successful Reserve calls so far, per instance
  coalesced,          \* whether os/signal has dropped a post on a full channel
  panicked            \* the panic that ended the process, or NoPanic

vars == << reservedFunctions, ctxDone, signalCh, handlers, mutex, lpc, idx,
           ranged, invoked, callerpc, accepted, coalesced, panicked >>

NoPanic == [by |-> 0, cause |-> "none"]

Idle == [op |-> "idle", at |-> "idle"]

Running == panicked = NoPanic

\* New(signals...) has returned for both instances: context not cancelled,
\* channel made, os/signal subscribed, listening goroutine started.
Init ==
  /\ reservedFunctions = [d \in Dispatchers |-> << >>]
  /\ ctxDone = [d \in Dispatchers |-> FALSE]
  /\ signalCh = [d \in Dispatchers |-> [buf |-> << >>, closed |-> FALSE]]
  /\ handlers = Dispatchers
  /\ mutex = [d \in Dispatchers |-> "unlocked"]
  /\ lpc = [d \in Dispatchers |-> "select"]
  /\ idx = [d \in Dispatchers |-> 0]
  /\ ranged = [d \in Dispatchers |-> << >>]
  /\ invoked = [d \in Dispatchers |-> << >>]
  /\ callerpc = Idle
  /\ accepted = [d \in Dispatchers |-> << >>]
  /\ coalesced = FALSE
  /\ panicked = NoPanic

\* ------------------------------------------------------- OS delivery

\* The channels os/signal posts sig to.
Wanting(sig) == {d \in handlers : sig \in SignalSet(d)}

\* The process receives sig: os/signal posts it to every subscribed channel
\* that has room. A post to a closed channel would panic.
RaiseSignal(sig) ==
  /\ Running
  /\ Wanting(sig) # {}
  /\ IF \E d \in Wanting(sig) : signalCh[d].closed
     THEN /\ panicked' = [by |-> 0, cause |-> "send on closed channel"]
          /\ UNCHANGED << signalCh, coalesced >>
     ELSE /\ signalCh' = [d \in Dispatchers |->
                            IF d \in Wanting(sig)
                            THEN NotifySend(signalCh[d], sig)
                            ELSE signalCh[d]]
          /\ coalesced' = (coalesced \/ \E d \in Wanting(sig) :
                                          signalCh'[d] = signalCh[d])
          /\ UNCHANGED panicked
  /\ UNCHANGED << reservedFunctions, ctxDone, handlers, mutex, lpc, idx,
                  ranged, invoked, callerpc, accepted >>

\* ---------------------------------------------------------- listener

\* AtSelect with the dispatch handed to a goroutine of its own, so that the
\* loop selects again while it runs.
AtSelectOrDispatching(d) == lpc[d] \in {"select", "range"}

\* The listening goroutine is at its select: exec is called in the loop
\* itself, so the loop selects again only when exec has returned.
AtSelect(d) == lpc[d] = "select"

\* listen's select takes "case <-s.signalCh" and calls exec.
ListenRecv(d) ==
  /\ Running
  /\ AtSelect(d)
  /\ RecvReady(signalCh[d])
  /\ signalCh' = [signalCh EXCEPT ![d] = RecvChan(signalCh[d])]
  /\ lpc' = [lpc EXCEPT ![d] = "exec"]
  /\ UNCHANGED << reservedFunctions, ctxDone, handlers, mutex, idx, ranged,
                  invoked, callerpc, accepted, panicked, coalesced >>

\* listen's select takes "case <-s.ctx.Done()" and returns.
ListenDone(d) ==
  /\ Running
  /\ AtSelect(d)
  /\ ctxDone[d]
  /\ lpc' = [lpc EXCEPT ![d] = "stopped"]
  /\ UNCHANGED << reservedFunctions, ctxDone, signalCh, handlers, mutex, idx,
                  ranged, invoked, callerpc, accepted, panicked, coalesced >>

\* RangeOver with one registry shared by all instances.
RangeOverShared(d) == reservedFunctions[1]

\* The slice exec's range statement evaluates, once, under the lock.
RangeOver(d) == reservedFunctions[d]

\* LockFree with no mutual exclusion: Lock never waits.
LockNeverWaits(m) == TRUE

\* s.mutex.Lock() returns only when nobody holds the mutex.
LockFree(m) == m = "unlocked"

\* LockFreeInCallback for a re-entrant mutex: the goroutine that holds the
\* mutex may lock it again.
LockReentrantInCallback(m) == m \in {"unlocked", "listen"}

\* The same Lock, reached from a callback on the listening goroutine.
LockFreeInCallback(m) == LockFree(m)

\* exec: s.mutex.Lock(), then the range statement evaluates the slice.
ExecLock(d) ==
  /\ Running
  /\ lpc[d] = "exec"
  /\ LockFree(mutex[d])
  /\ mutex' = [mutex EXCEPT ![d] = "listen"]
  /\ lpc' = [lpc EXCEPT ![d] = "range"]
  /\ idx' = [idx EXCEPT ![d] = 1]
  /\ ranged' = [ranged EXCEPT ![d] = RangeOver(d)]
  /\ invoked' = [invoked EXCEPT ![d] = << >>]
  /\ UNCHANGED << reservedFunctions, ctxDone, signalCh, handlers, callerpc,
                  accepted, panicked, coalesced >>

\* LoopContinues giving up the loop once the context is cancelled.
LoopContinuesUnlessCancelled(d) == idx[d] <= Len(ranged[d]) /\ ~ctxDone[d]

\* exec's range loop has a next entry; nothing else ends the loop.
LoopContinues(d) == idx[d] <= Len(ranged[d])

\* exec: one iteration of the loop, function.Call(args) on the next entry.
\* A panic runs the deferred Unlock and ends the process. A body that calls
\* Reserve on its own instance arrives at Lock on the listening goroutine,
\* which holds the mutex: it waits there, and the call does not return.
ExecCall(d) ==
  /\ Running
  /\ lpc[d] = "range"
  /\ LoopContinues(d)
  /\ LET fd  == ranged[d][idx[d]]
         out == CallOutcome(fd)
     IN /\ invoked' = [invoked EXCEPT ![d] =
                         IF Invoked(fd) THEN Append(invoked[d], fd)
                         ELSE invoked[d]]
        /\ IF out # "returned"
           THEN /\ panicked' = [by |-> d, cause |-> out]
                /\ mutex' = [mutex EXCEPT ![d] = "unlocked"]
                /\ UNCHANGED << idx, lpc, reservedFunctions, accepted >>
           ELSE IF ~BodyReserves(fd.function)
           THEN /\ idx' = [idx EXCEPT ![d] = idx[d] + 1]
                /\ UNCHANGED << mutex, panicked, lpc, reservedFunctions,
                                accepted >>
           ELSE IF ~LockFreeInCallback(mutex[d])
           THEN /\ lpc' = [lpc EXCEPT ![d] = "blocked"]
                /\ UNCHANGED << idx, mutex, panicked, reservedFunctions,
                                accepted >>
           ELSE /\ reservedFunctions' =
                     [reservedFunctions EXCEPT ![d] =
                        ReserveAppend(reservedFunctions[d],
                                      ReservedByCallback.function,
                                      ReservedByCallback.args)]
                /\ accepted' = [accepted EXCEPT ![d] =
                                  accepted[d] \o << ReservedByCallback >>]
                /\ idx' = [idx EXCEPT ![d] = idx[d] + 1]
                /\ UNCHANGED << mutex, panicked, lpc >>
  /\ UNCHANGED << ctxDone, signalCh, handlers, ranged, callerpc, coalesced >>

\* exec: the loop is over, the deferred Unlock runs, listen selects again.
ExecReturn(d) ==
  /\ Running
  /\ lpc[d] = "range"
  /\ ~LoopContinues(d)
  /\ mutex' = [mutex EXCEPT ![d] = "unlocked"]
  /\ lpc' = [lpc EXCEPT ![d] = "select"]
  /\ idx' = [idx EXCEPT ![d] = 0]
  /\ ranged' = [ranged EXCEPT ![d] = << >>]
  /\ invoked' = [invoked EXCEPT ![d] = << >>]
  /\ UNCHANGED << reservedFunctions, ctxDone, signalCh, handlers, callerpc,
                  accepted, panicked, coalesced >>

\* ------------------------------------------------------------ caller

\* The entries reserved so far, over all instances.
TotalReserved == Len(accepted[1]) + Len(accepted[2])

\* Reserve: s.mutex.Lock() (it waits while exec holds the lock). cap bounds
\* the calls the model lets succeed.
ReserveLock(d, function, args, cap) ==
  /\ Running
  /\ callerpc = Idle
  /\ LockFree(mutex[d])
  /\ ReserveCheck(function, args) = "nil" => TotalReserved < cap
  /\ mutex' = [mutex EXCEPT ![d] = "caller"]
  /\ callerpc' = [op |-> "Reserve", at |-> "locked", d |-> d,
                  function |-> function, args |-> args]
  /\ UNCHANGED << reservedFunctions, ctxDone, signalCh, handlers, lpc, idx,
                  ranged, invoked, accepted, panicked, coalesced >>

\* Reserve is called while the mutex of d is held: the caller waits in Lock.
ReserveWait(d, function, args, cap) ==
  /\ Running
  /\ callerpc = Idle
  /\ ~LockFree(mutex[d])
  /\ ReserveCheck(function, args) = "nil" => TotalReserved < cap
  /\ callerpc' = [op |-> "Reserve", at |-> "lock", d |-> d,
                  function |-> function, args |-> args]
  /\ UNCHANGED << reservedFunctions, ctxDone, signalCh, handlers, mutex, lpc,
                  idx, ranged, invoked, accepted, panicked, coalesced >>

\* The caller waiting in Lock gets the mutex.
ReserveAcquire ==
  /\ Running
  /\ callerpc.op = "Reserve"
  /\ callerpc.at = "lock"
  /\ LockFree(mutex[callerpc.d])
  /\ mutex' = [mutex EXCEPT ![callerpc.d] = "caller"]
  /\ callerpc' = [callerpc EXCEPT !.at = "locked"]
  /\ UNCHANGED << reservedFunctions, ctxDone, signalCh, handlers, lpc, idx,
                  ranged, invoked, accepted, panicked, coalesced >>

\* Reserve: the checks, the append, the deferred Unlock, the return.
ReserveBody ==
  /\ Running
  /\ callerpc.op = "Reserve"
  /\ callerpc.at = "locked"
  /\ LET d   == callerpc.d
         err == ReserveCheck(callerpc.function, callerpc.args)
     IN /\ reservedFunctions' =
             [reservedFunctions EXCEPT ![d] =
                ReserveResult(reservedFunctions[d], callerpc.function,
                              callerpc.args, err)]
        /\ mutex' = [mutex EXCEPT ![d] = "unlocked"]
        /\ callerpc' = [op |-> "Reserve", at |-> "returned", d |-> d,
                        function |-> callerpc.function,
                        args |-> callerpc.args, err |-> err]
        /\ accepted' = [accepted EXCEPT ![d] =
                          IF err = "nil"
                          THEN accepted[d] \o << [function |-> callerpc.function,
                                                  args |-> callerpc.args] >>
                          ELSE accepted[d]]
  /\ UNCHANGED << ctxDone, signalCh, handlers, lpc, idx, ranged, invoked,
                  panicked, coalesced >>

\* Cancel that sets nothing: the context stays as it was.
CancelForgotten(done) == done

\* s.cancel(): the context is done, whether or not it already was.
Cancel(done) == TRUE

\* close(ch) on a channel that is open.
CloseOpenChan(ch) == [ch EXCEPT !.closed = TRUE]

\* Close: s.cancel()
CloseCancel(d) ==
  /\ Running
  /\ callerpc = Idle
  /\ ctxDone' = [ctxDone EXCEPT ![d] = Cancel(ctxDone[d])]
  /\ callerpc' = [op |-> "Close", at |-> "cancelled", d |-> d]
  /\ UNCHANGED << reservedFunctions, signalCh, handlers, mutex, lpc, idx,
                  ranged, invoked, accepted, panicked, coalesced >>

\* StopHandlers ending delivery to every channel, as signal.Reset would.
StopEveryHandler(hs, d) == {}

\* StopHandlers that leaves the channel subscribed.
StopForgotten(hs, d) == hs

\* signal.Stop(c): os/signal no longer posts to the channel of d.
StopHandlers(hs, d) == hs \ {d}

\* Close: signal.Stop(s.signalCh)
CloseStop ==
  /\ Running
  /\ callerpc.op = "Close"
  /\ callerpc.at = "cancelled"
  /\ handlers' = StopHandlers(handlers, callerpc.d)
  /\ callerpc' = [callerpc EXCEPT !.at = "stopped"]
  /\ UNCHANGED << reservedFunctions, ctxDone, signalCh, mutex, lpc, idx,
                  ranged, invoked, accepted, panicked, coalesced >>

\* Close: close(s.signalCh), which panics on a channel already closed.
CloseChan ==
  /\ Running
  /\ callerpc.op = "Close"
  /\ callerpc.at = "stopped"
  /\ LET d == callerpc.d
     IN IF signalCh[d].closed
        THEN /\ panicked' = [by |-> 0, cause |-> "close of closed channel"]
             /\ UNCHANGED << signalCh, callerpc >>
        ELSE /\ signalCh' = [signalCh EXCEPT ![d] = CloseOpenChan(signalCh[d])]
             /\ callerpc' = [callerpc EXCEPT !.at = "returned"]
             /\ UNCHANGED panicked
  /\ UNCHANGED << reservedFunctions, ctxDone, handlers, mutex, lpc, idx,
                  ranged, invoked, accepted, coalesced >>

\* The caller goes on after Reserve or Close has returned.
CallerContinue ==
  /\ Running
  /\ callerpc.at = "returned"
  /\ callerpc' = Idle
  /\ UNCHANGED << reservedFunctions, ctxDone, signalCh, handlers, mutex, lpc,
                  idx, ranged, invoked, accepted, panicked, coalesced >>

\* ------------------------------------------------------ specifications

\* The Reserve calls the concurrent specification makes: one of each outcome,
\* and among the accepted ones a plain callback, one bound to a nil argument
\* and one whose body panics.
DispatchInputs ==
  { << "hello", << >> >>,
    << "deref", << "nil" >> >>,
    << "boom", << >> >>,
    << "s1", << >> >>,
    << "sum", << "i1" >> >>,
    << "hello", << "i1" >> >>,
    << "greet", << "i1", "s1" >> >> }

\* Every first argument Reserve is enumerated with.
AllFunctions == Funcs \cup Values

\* Every argument list of at most n values.
ArgLists(n) == UNION {[1..k -> Values] : k \in 0..n}

Next ==
  \/ \E sig \in Signals : RaiseSignal(sig)
  \/ \E d \in Dispatchers : ListenRecv(d)
  \/ \E d \in Dispatchers : ListenDone(d)
  \/ \E d \in Dispatchers : ExecLock(d)
  \/ \E d \in Dispatchers : ExecCall(d)
  \/ \E d \in Dispatchers : ExecReturn(d)
  \/ \E d \in Dispatchers, in \in DispatchInputs :
       ReserveLock(d, in[1], in[2], MaxReserved)
  \/ ReserveBody
  \/ \E d \in Dispatchers : CloseCancel(d)
  \/ CloseStop
  \/ CloseChan
  \/ CallerContinue

\* Both instances, the listeners, the caller and the OS, in any interleaving.
Spec == Init /\ [][Next]_vars

\* The caller alone, calling Reserve on instance 1 with every first argument
\* and every argument list of at most MaxArgs values.
NextReserve ==
  \/ \E function \in AllFunctions, args \in ArgLists(MaxArgs) :
       ReserveLock(1, function, args, MaxReservedWide)
  \/ ReserveBody
  \/ CallerContinue

SpecReserve == Init /\ [][NextReserve]_vars

\* Instance 1 as constructed; instance 2 already closed and its listener
\* stopped.
InitOneLive ==
  /\ reservedFunctions = [d \in Dispatchers |-> << >>]
  /\ ctxDone = [d \in Dispatchers |-> d = 2]
  /\ signalCh = [d \in Dispatchers |-> [buf |-> << >>, closed |-> d = 2]]
  /\ handlers = {1}
  /\ mutex = [d \in Dispatchers |-> "unlocked"]
  /\ lpc = [d \in Dispatchers |-> IF d = 2 THEN "stopped" ELSE "select"]
  /\ idx = [d \in Dispatchers |-> 0]
  /\ ranged = [d \in Dispatchers |-> << >>]
  /\ invoked = [d \in Dispatchers |-> << >>]
  /\ callerpc = Idle
  /\ accepted = [d \in Dispatchers |-> << >>]
  /\ coalesced = FALSE
  /\ panicked = NoPanic

\* What Go's scheduler and sync.Mutex give: a goroutine that can run does
\* run, a select with a ready case takes one, and a goroutine waiting in
\* Lock gets the mutex (it is handed over to a starving waiter). Nothing is
\* assumed about when the caller makes its next call.
Fairness ==
  /\ \A d \in Dispatchers : WF_vars(ListenRecv(d) \/ ListenDone(d))
  /\ \A d \in Dispatchers : SF_vars(ExecLock(d))
  /\ \A d \in Dispatchers : WF_vars(ExecCall(d))
  /\ \A d \in Dispatchers : WF_vars(ExecReturn(d))
  /\ WF_vars(ReserveBody)
  /\ WF_vars(CloseStop)
  /\ WF_vars(CloseChan)

FairSpec == InitOneLive /\ [][Next]_vars /\ Fairness

\* The Reserve calls of the specification with a callback that reserves: that
\* callback and a plain one.
ReentryInputs == { << "again", << >> >>, << "hello", << >> >> }

\* As Next, with a caller that may call Reserve while a dispatch holds the
\* mutex and then waits in Lock.
NextReentry ==
  \/ \E sig \in Signals : RaiseSignal(sig)
  \/ \E d \in Dispatchers : ListenRecv(d)
  \/ \E d \in Dispatchers : ListenDone(d)
  \/ \E d \in Dispatchers : ExecLock(d)
  \/ \E d \in Dispatchers : ExecCall(d)
  \/ \E d \in Dispatchers : ExecReturn(d)
  \/ \E d \in Dispatchers, in \in ReentryInputs :
       ReserveLock(d, in[1], in[2], MaxReserved)
  \/ \E d \in Dispatchers, in \in ReentryInputs :
       ReserveWait(d, in[1], in[2], MaxReserved)
  \/ ReserveAcquire
  \/ ReserveBody
  \/ \E d \in Dispatchers : CloseCancel(d)
  \/ CloseStop
  \/ CloseChan
  \/ CallerContinue

\* Fairness, and the caller waiting in Lock gets the mutex as well.
FairnessReentry == Fairness /\ SF_vars(ReserveAcquire)

FairSpecReentry == InitOneLive /\ [][NextReentry]_vars /\ FairnessReentry

\* ------------------------------------------------------------ claims

\* A Reserve call has returned to the caller.
ReserveReturned == callerpc.op = "Reserve" /\ callerpc.at = "returned"

\* The step in which Reserve runs its checks and returns.
ReserveReturns == /\ callerpc.op = "Reserve"
                  /\ callerpc.at = "locked"
                  /\ callerpc'.at = "returned"

\* The classification the claim gives, case by case.
Classification(function, args) ==
  LET k == Len(Params(function))
      n == Len(args)
  IN CASE function \notin Funcs -> "ErrInvalidFunction"
       [] function \in Funcs /\ n < k -> "ErrTooFewArgs"
       [] function \in Funcs /\ n > k -> "ErrTooManyArgs"
       [] /\ function \in Funcs
          /\ n = k
          /\ \E i \in 1..k : /\ args[i] # "nil"
                              /\ ~AssignableTo(TypeOf(args[i]), Params(function)[i])
          -> "ErrTypeMismatch"
       [] OTHER -> "nil"

\* C1: whatever first argument and argument list Reserve is called with, the
\* error it returns is the one the classification names: InvalidCallable for
\* a non-callable, else TooFewArguments for n < k, else TooManyArguments for
\* n > k, else TypeMismatch when some non-nil argument is not assignable to
\* its parameter, else success.
C1_ReserveClassifies ==
  ReserveReturned =>
    callerpc.err = Classification(callerpc.function, callerpc.args)

\* C1's case: greet(string, int) called with (int, string), as in the test,
\* has returned ErrTypeMismatch.
C1_Witness ==
  /\ ReserveReturned
  /\ callerpc.function = "greet"
  /\ callerpc.args = << "i1", "s1" >>
  /\ callerpc.err = "ErrTypeMismatch"

\* C2: a Reserve call that returns an error leaves every registry as it
\* was, and the cancellation tokens, the queues, the subscriptions and the
\* listeners too; so does the step in which it takes the lock.
C2_FailedReserveNoEffect ==
  [][ ( \/ ReserveReturns /\ callerpc'.err # "nil"
        \/ callerpc = Idle /\ callerpc'.op = "Reserve" )
      => UNCHANGED << reservedFunctions, ctxDone, signalCh, handlers, lpc,
                      idx, ranged, invoked >> ]_vars

\* C2's case: a call with too few arguments has returned its error on an
\* instance that holds an entry and has a notification pending.
C2_Witness ==
  /\ ReserveReturned
  /\ callerpc.err = "ErrTooFewArgs"
  /\ Len(reservedFunctions[callerpc.d]) = 1
  /\ signalCh[callerpc.d].buf # << >>

\* C3: a Reserve call that returns success adds its (callable, arguments)
\* at the end of its instance's registry and changes nothing else in any
\* registry; so every registry is the sequence of the successful calls made
\* on its instance, in call order.
C3_SuccessAppends ==
  /\ [][ (ReserveReturns /\ callerpc'.err = "nil")
          => /\ reservedFunctions'[callerpc.d] =
                  reservedFunctions[callerpc.d]
                    \o << [function |-> callerpc.function,
                           args |-> callerpc.args] >>
             /\ \A d \in Dispatchers \ {callerpc.d} :
                  reservedFunctions'[d] = reservedFunctions[d] ]_vars
  /\ [](\A d \in Dispatchers : reservedFunctions[d] = accepted[d])

\* C3's case: the second successful call on instance 1 has returned, and its
\* entry stands after the first call's.
C3_Witness ==
  /\ ReserveReturned
  /\ callerpc.d = 1
  /\ callerpc.err = "nil"
  /\ callerpc.function = "deref"
  /\ reservedFunctions[1] = << [function |-> "hello", args |-> << >>],
                               [function |-> "deref", args |-> << "nil" >>] >>

\* C9: with a callable of arity k and exactly k arguments, Reserve succeeds
\* when every non-nil argument is assignable to its parameter, whatever the
\* types of the parameters the nil arguments stand for; it returns
\* TypeMismatch only when some non-nil argument is not assignable.
C9_NilAlwaysAccepted ==
  (ReserveReturned /\ callerpc.function \in Funcs
     /\ Len(callerpc.args) = Len(Params(callerpc.function)))
  => LET t == Params(callerpc.function)
         NonNilFit == \A i \in 1..Len(t) :
                        callerpc.args[i] = "nil"
                        \/ AssignableTo(TypeOf(callerpc.args[i]), t[i])
     IN /\ NonNilFit => callerpc.err = "nil"
        /\ callerpc.err = "ErrTypeMismatch" => ~NonNilFit

\* C9's case: sum(int, int) called with (nil, 1) has returned success.
C9_Witness ==
  /\ ReserveReturned
  /\ callerpc.function = "sum"
  /\ callerpc.args = << "nil", "i1" >>
  /\ callerpc.err = "nil"

\* The listener of d is inside exec's loop.
Dispatching(d) == lpc[d] = "range"

\* The dispatch of d is over: its loop has run out, or a panic has ended it.
DispatchOver(d) ==
  Dispatching(d) /\ (idx[d] > Len(ranged[d]) \/ panicked.by = d)

\* No callback in the registry of d raises a fault of its own.
CallbacksReturn(d) ==
  \A i \in 1..Len(reservedFunctions[d]) :
    ~BodyPanics(reservedFunctions[d][i].function)

\* C4 (as claimed; taken for the dispatches none of whose callbacks raises a
\* fault of its own, which the claim covers): what a dispatch has invoked is
\* at every moment the leading part of the registry, in registration order
\* and each entry once, and when the dispatch is over it is the whole
\* registry.
C4_EveryReservedInvoked ==
  \A d \in Dispatchers :
    (Dispatching(d) /\ CallbacksReturn(d))
    => /\ Len(invoked[d]) <= Len(reservedFunctions[d])
       /\ invoked[d] = SubSeq(reservedFunctions[d], 1, Len(invoked[d]))
       /\ DispatchOver(d) => invoked[d] = reservedFunctions[d]

\* C5 (as claimed): once the cancellation token of an instance is set, its
\* listener never again goes from waiting in the select to a dispatch.
C5_NoDispatchAfterCancel ==
  [][ \A d \in Dispatchers :
        ctxDone[d] => ~(lpc[d] = "select" /\ lpc'[d] = "exec") ]_vars

\* C6 (as claimed): a Close call on an instance that is already closed
\* returns without a fault.
C6_CloseIdempotent == panicked.cause # "close of closed channel"

\* A Close call on d has returned to the caller.
CloseReturned(d) ==
  callerpc.op = "Close" /\ callerpc.at = "returned" /\ callerpc.d = d

\* C7 (as claimed): when Close has returned the token is set, the queue is
\* closed and a read from it reports closure, not a notification; and a token
\* that is set stays set.
C7_CloseReturnsClosed ==
  /\ [](\A d \in Dispatchers :
          CloseReturned(d) => /\ ctxDone[d]
                              /\ signalCh[d].closed
                              /\ ~RecvOk(signalCh[d]))
  /\ [][\A d \in Dispatchers : ctxDone[d] => ctxDone'[d]]_vars

\* C7 (amended): when Close has returned the token is set and the queue is
\* closed; from then on nothing is posted to it, so a read reports closure
\* once the one notification that may still be buffered has been read; and a
\* token that is set stays set.
C7_CloseReturnsClosedDrained ==
  /\ [](\A d \in Dispatchers : CloseReturned(d) => signalCh[d].closed)
  /\ [](\A d \in Dispatchers :
          signalCh[d].closed => /\ ctxDone[d]
                                /\ d \notin handlers
                                /\ ~RecvOk(RecvChan(signalCh[d])))
  /\ [][\A d \in Dispatchers :
          signalCh[d].closed =>
            /\ signalCh'[d].closed
            /\ Len(signalCh'[d].buf) <= Len(signalCh[d].buf)]_vars
  /\ [][\A d \in Dispatchers : ctxDone[d] => ctxDone'[d]]_vars

\* C7's case: Close has returned on an instance whose queue still holds a
\* notification.
C7_Witness ==
  \E d \in Dispatchers : CloseReturned(d) /\ signalCh[d].buf # << >>

\* What belongs to instance d.
InstanceState(d) ==
  << reservedFunctions[d], ctxDone[d], signalCh[d], d \in handlers, mutex[d],
     lpc[d], idx[d], ranged[d], invoked[d], accepted[d] >>

\* A step of the listener of d.
ListenerStep(d) == lpc'[d] # lpc[d] \/ idx'[d] # idx[d]

\* A step of a Reserve call on d.
ReserveStep(d) ==
  /\ callerpc' # callerpc
  /\ \/ callerpc.op = "Reserve" /\ callerpc.at = "locked" /\ callerpc.d = d
     \/ callerpc'.op = "Reserve" /\ callerpc'.at = "locked" /\ callerpc'.d = d

\* C8: a step of one instance's listener or of a Reserve call on it leaves
\* everything that belongs to the other instance unchanged, and a listener
\* invokes only entries of its own instance's registry.
C8_InstancesIndependent ==
  /\ [][ \A a \in Dispatchers : \A b \in Dispatchers \ {a} :
           (ListenerStep(a) \/ ReserveStep(a))
           => InstanceState(b)' = InstanceState(b) ]_vars
  /\ [](\A d \in Dispatchers : \A i \in 1..Len(invoked[d]) :
          \E j \in 1..Len(reservedFunctions[d]) :
            invoked[d][i] = reservedFunctions[d][j])

\* C8's case: both listeners are dispatching at once, each has invoked the
\* one entry of its own registry, and the two entries differ.
C8_Witness ==
  /\ Dispatching(1) /\ Dispatching(2)
  /\ Len(invoked[1]) = 1 /\ Len(invoked[2]) = 1
  /\ invoked[1] = reservedFunctions[1]
  /\ invoked[2] = reservedFunctions[2]
  /\ invoked[1] # invoked[2]

\* A dispatch of d has run every reserved call and is about to return.
DispatchComplete(d) ==
  Dispatching(d) /\ idx[d] > Len(ranged[d]) /\ panicked = NoPanic

\* C10 (as claimed): on an instance that is never closed and whose callbacks
\* all return, a posted notification is eventually followed by a dispatch
\* that has run every reserved call. (Taken for the runs in which Close is
\* not called on any instance.)
C10_SignalLeadsToDispatch ==
  \A d \in Dispatchers :
    [](~ctxDone[d] /\ callerpc.op # "Close" /\ CallbacksReturn(d))
    => ((signalCh[d].buf # << >>) ~> DispatchComplete(d))

\* The listening goroutine of d has returned from listen.
Stopped(d) == lpc[d] = "stopped"

\* C11: once Close has cancelled the context of an instance, its listening
\* goroutine stops without dispatching again: if a dispatch is in flight, the
\* first select after exec returns takes the cancellation, never the channel;
\* and a stopped goroutine stays stopped.
C11_StopsWithoutFurtherDispatch ==
  [][\A d \in Dispatchers :
        /\ (ctxDone[d] /\ lpc[d] = "range" /\ lpc'[d] # "range")
              => lpc'[d] = "select"
        /\ (ctxDone[d] /\ lpc[d] = "select" /\ lpc'[d] # "select")
              => lpc'[d] = "stopped"
        /\ lpc[d] = "stopped" => lpc'[d] = "stopped"]_vars

\* A step of Close on instance d: cancel, signal.Stop or close.
CloseStep(d) ==
  callerpc' # callerpc /\ callerpc'.op = "Close" /\ callerpc'.d = d

\* What a dispatch in flight on d works with.
DispatchState(d) ==
  << lpc[d], idx[d], ranged[d], invoked[d], reservedFunctions[d] >>

\* C12: Close during a dispatch does not interrupt it. No step of Close
\* touches the dispatch in flight; whether or not the context is cancelled
\* and the channel closed, the loop goes on to its next entry; the calls made
\* are the entries in registration order; and exec returns to the select
\* only when every entry has been invoked.
C12_CloseDoesNotInterrupt ==
  /\ [][\A d \in Dispatchers :
          /\ (Dispatching(d) /\ CloseStep(d)) => UNCHANGED DispatchState(d)
          /\ (lpc[d] = "range" /\ lpc'[d] # "range")
                => (invoked[d] = ranged[d] /\ lpc'[d] = "select")]_vars
  /\ [](\A d \in Dispatchers :
          /\ (Running /\ Dispatching(d) /\ idx[d] <= Len(ranged[d]))
                => ENABLED ExecCall(d)
          /\ Dispatching(d)
                => invoked[d] = SubSeq(ranged[d], 1, Len(invoked[d])))

\* Instance d was closed while a dispatch over two entries was in flight (a
\* signal posted after the dispatch began is still in the closed channel),
\* and both entries have been invoked.
C12_Witness ==
  \E d \in Dispatchers :
    /\ ctxDone[d] /\ signalCh[d].closed /\ signalCh[d].buf # << >>
    /\ Dispatching(d)
    /\ Len(ranged[d]) = 2
    /\ invoked[d] = ranged[d]

\* The caller is inside Reserve on d, between Lock and the deferred Unlock.
Reserving(d) ==
  callerpc.op = "Reserve" /\ callerpc.at = "locked" /\ callerpc.d = d

\* C13: Reserve and exec exclude each other on s.mutex. The two are never
\* inside their locked sections of one instance together; the registry does
\* not change from the dispatch's Lock to its return; what the dispatch
\* ranges over is the registry as it was at its Lock, which holds every entry
\* reserved before, those reserved during an earlier dispatch included; and
\* what it has invoked when it returns is that registry, no entry more.
C13_ReserveExcludesDispatch ==
  /\ [](Running => \A d \in Dispatchers :
          /\ ~(Reserving(d) /\ Dispatching(d))
          /\ Reserving(d) <=> mutex[d] = "caller"
          /\ Dispatching(d) <=> mutex[d] = "listen"
          /\ Dispatching(d) => /\ ranged[d] = reservedFunctions[d]
                               /\ reservedFunctions[d] = accepted[d])
  /\ [][\A d \in Dispatchers :
          /\ reservedFunctions'[d] # reservedFunctions[d]
                => (Reserving(d) /\ lpc[d] # "range" /\ lpc'[d] # "range")
          /\ (lpc[d] = "exec" /\ lpc'[d] = "range")
                => ranged'[d] = accepted[d]
          /\ (lpc[d] = "range" /\ lpc'[d] = "select")
                => invoked[d] = accepted[d]]_vars

\* A dispatch of d has drained its notification and waits at Lock while the
\* caller, inside Reserve, is adding a second entry to the registry of d.
C13_Witness ==
  \E d \in Dispatchers :
    /\ Reserving(d)
    /\ lpc[d] = "exec"
    /\ Len(reservedFunctions[d]) = 1
    /\ ReserveCheck(callerpc.function, callerpc.args) = "nil"

\* A step in which the listening goroutine of d takes something from its
\* channel and so starts a dispatch.
DrainStep(d) == lpc[d] # "exec" /\ lpc'[d] = "exec"

\* C14: an instance has one listening goroutine and at most one dispatch in
\* progress. The goroutine takes the next notification only from its select,
\* with nothing of the previous dispatch left: exec has returned, its mutex
\* is released and every entry it ranged over was invoked before. So the
\* callbacks of two dispatches of one instance never interleave.
C14_OneDispatchAtATime ==
  /\ [][\A d \in Dispatchers :
          /\ DrainStep(d)
                => /\ lpc[d] = "select"
                   /\ mutex[d] # "listen"
                   /\ ranged[d] = << >> /\ invoked[d] = << >>
          /\ (signalCh'[d].buf # signalCh[d].buf /\ lpc[d] \in {"exec", "range"})
                => Len(signalCh'[d].buf) > Len(signalCh[d].buf)
          /\ (lpc[d] # "select" /\ lpc'[d] = "select")
                => (lpc[d] = "range" /\ idx[d] = Len(ranged[d]) + 1)
          /\ invoked'[d] # invoked[d]
                => \/ lpc[d] = "range" /\ lpc'[d] = "range"
                      /\ invoked'[d] = Append(invoked[d], ranged[d][idx[d]])
                   \/ invoked'[d] = << >>]_vars
  /\ [](\A d \in Dispatchers :
          lpc[d] \in {"select", "exec", "stopped"}
            => (ranged[d] = << >> /\ invoked[d] = << >>))

\* A second notification is waiting in the channel of d while its dispatch
\* is between two callbacks.
C14_Witness ==
  \E d \in Dispatchers :
    /\ Dispatching(d)
    /\ signalCh[d].buf # << >>
    /\ Len(ranged[d]) = 2
    /\ Len(invoked[d]) = 1

\* C15: the channel of an instance never holds more than one notification.
\* A signal raised while one is waiting is dropped for that instance (the
\* channel keeps the one it has), and raising a signal never waits for room:
\* it can happen whenever somebody is subscribed, whatever the channels hold.
C15_AtMostOnePending ==
  /\ [](\A d \in Dispatchers : Len(signalCh[d].buf) <= 1)
  /\ [](Running => \A sig \in Signals :
                     Wanting(sig) # {} => ENABLED RaiseSignal(sig))
  /\ [][\A d \in Dispatchers :
          /\ Len(signalCh'[d].buf) > Len(signalCh[d].buf)
                => (signalCh[d].buf = << >> /\ Len(signalCh'[d].buf) = 1)
          /\ (signalCh[d].buf # << >> /\ signalCh'[d].buf # << >>)
                => signalCh'[d].buf = signalCh[d].buf
          /\ (coalesced' /\ ~coalesced)
                => \E e \in Dispatchers :
                     signalCh[e].buf # << >> /\ signalCh'[e] = signalCh[e]]_vars

\* A signal has been dropped on a full channel: d is in a dispatch, one
\* notification waits in its channel and a later one was not queued.
C15_Witness ==
  \E d \in Dispatchers :
    /\ coalesced
    /\ Dispatching(d)
    /\ Len(signalCh[d].buf) = 1
    /\ d \in handlers

\* C16: every dispatch started answers a notification of its own, and every
\* notification was posted for a subscribed signal raised. A step that starts
\* a dispatch of d takes one notification out of the channel of d, and the
\* channel of d gains a notification, one at a time, only when a signal d is
\* subscribed to is raised. Counted over a run, Close included: dispatches
\* started <= notifications posted <= subscribed signals raised.
C16_DispatchesBoundedBySignals ==
  [][\A d \in Dispatchers :
        /\ DrainStep(d)
              => Len(signalCh'[d].buf) + 1 = Len(signalCh[d].buf)
        /\ Len(signalCh'[d].buf) > Len(signalCh[d].buf)
              => \E sig \in SignalSet(d) :
                   /\ d \in Wanting(sig)
                   /\ signalCh'[d].buf = Append(signalCh[d].buf, sig)]_vars

\* A parameter type whose values include nil: a pointer or an interface.
ReferenceLike(paramType) == paramType \in {"*string", "any"}

\* C17: every entry of every registry is a well-formed reserved call: a
\* function with as many stored arguments as it has parameters, each argument
\* either non-nil and assignable to its parameter's type, or nil for a
\* parameter of a reference-like type. So no nil is stored for an int or a
\* string parameter, and function.Call raises no argument fault on any entry.
C17_ReservedCallInvariant ==
  \A d \in Dispatchers :
    \A n \in 1..Len(reservedFunctions[d]) :
      LET fd == reservedFunctions[d][n]
          t  == Params(fd.function)
      IN /\ fd.function \in Funcs
         /\ Len(fd.args) = Len(t)
         /\ \A i \in 1..Len(t) :
              IF fd.args[i] = "nil" THEN ReferenceLike(t[i])
              ELSE AssignableTo(TypeOf(fd.args[i]), t[i])
         /\ Invoked(fd)

\* C18: a fault raised by a callback is not caught. The callback at which
\* the dispatch of d stands has run and raised it, the entries after it are
\* not invoked, the dispatch never returns to the select, and the fault ends
\* the process: no step of any goroutine follows. Reserve reports only what
\* its own checks found, never a callback's fault.
C18_FaultPropagates ==
  /\ [](panicked.cause = "callback panic" =>
          LET d == panicked.by
          IN /\ d \in Dispatchers
             /\ lpc[d] = "range"
             /\ idx[d] <= Len(ranged[d])
             /\ BodyPanics(ranged[d][idx[d]].function)
             /\ invoked[d] = SubSeq(ranged[d], 1, idx[d]))
  /\ [](\A d \in Dispatchers : \A n \in 1..Len(invoked[d]) :
          BodyPanics(invoked[d][n].function)
            => /\ n = Len(invoked[d])
               /\ panicked = [by |-> d, cause |-> "callback panic"])
  /\ [](ReserveReturned =>
          callerpc.err = ReserveCheck(callerpc.function, callerpc.args))
  /\ [][panicked = NoPanic]_vars

\* The first of two callbacks of a dispatch has raised a fault: the second
\* has not been invoked and the process has ended.
C18_Witness ==
  /\ panicked.cause = "callback panic"
  /\ Len(ranged[panicked.by]) = 2
  /\ idx[panicked.by] = 1
  /\ Len(invoked[panicked.by]) = 1

\* C19: Close on one instance ends delivery to that instance's channel
\* only. No step of Close on a changes anything of another instance b: its
\* registry, context, channel, subscription and listener stay as they are,
\* and b leaves the subscribed channels only by a Close of its own. While b
\* is subscribed, a signal of its set can be raised and is posted to its
\* channel when there is room, and its listener can take it and dispatch.
C19_CloseLeavesOthersSubscribed ==
  /\ [][\A a \in Dispatchers : \A b \in Dispatchers \ {a} :
          /\ CloseStep(a) => InstanceState(b)' = InstanceState(b)
          /\ (b \in handlers /\ b \notin handlers') => CloseStep(b)
          /\ \A sig \in SignalSet(b) :
               (a \notin handlers /\ b \in handlers /\ RaiseSignal(sig))
                 => signalCh'[b].buf =
                      (IF signalCh[b].buf = << >> THEN << sig >>
                       ELSE signalCh[b].buf)]_vars
  /\ [](Running => \A b \in handlers :
          /\ \A sig \in SignalSet(b) : ENABLED RaiseSignal(sig)
          /\ (AtSelect(b) /\ signalCh[b].buf # << >>) => ENABLED ListenRecv(b))

\* The first instance is closed and unsubscribed; the second is still
\* subscribed and not cancelled, has dispatched to its callback and has
\* another notification waiting.
C19_Witness ==
  /\ 1 \notin handlers /\ signalCh[1].closed /\ ctxDone[1]
  /\ 2 \in handlers /\ ~ctxDone[2] /\ ~signalCh[2].closed
  /\ Dispatching(2)
  /\ Len(invoked[2]) = 1
  /\ signalCh[2].buf # << >>

\* C20: Close cancels, then unsubscribes, then closes the channel, so that
\* os/signal never posts to a closed channel. A channel leaves the subscribed
\* ones only with its context cancelled and while still open, is closed only
\* when no longer subscribed, and no raise of a signal, in any interleaving
\* with Close, ends in "send on closed channel".
C20_NoPostAfterClose ==
  /\ [](panicked.cause # "send on closed channel")
  /\ [](\A d \in Dispatchers :
          /\ signalCh[d].closed => d \notin handlers
          /\ d \notin handlers => ctxDone[d])
  /\ [][\A d \in Dispatchers :
          /\ (d \in handlers /\ d \notin handlers')
                => (ctxDone[d] /\ ~signalCh[d].closed /\ ~signalCh'[d].closed)
          /\ (~signalCh[d].closed /\ signalCh'[d].closed)
                => (ctxDone[d] /\ d \notin handlers)
          /\ signalCh[d].closed
                => Len(signalCh'[d].buf) <= Len(signalCh[d].buf)]_vars

\* The first instance has been closed to the end and its listener has
\* stopped; the process runs on and SIGINT has been posted to the second
\* instance only.
C20_Witness ==
  /\ Running
  /\ signalCh[1].closed /\ signalCh[1].buf = << >> /\ 1 \notin handlers
  /\ lpc[1] = "stopped"
  /\ signalCh[2].buf = << "SIGINT" >>
  /\ lpc[2] = "select"

\* The caller's Reserve call on d has not returned: it waits in Lock or is
\* inside its locked section.
ReservePending(d) ==
  callerpc.op = "Reserve" /\ callerpc.at \in {"lock", "locked"} /\ callerpc.d = d

\* The listening goroutine of d is inside a callback, waiting in the Lock of
\* the Reserve the callback has called.
Blocked(d) == lpc[d] = "blocked"

\* C21: s.mutex is not re-entrant and exec holds it for the whole dispatch.
\* A callback that calls Reserve on its own instance leaves the listening
\* goroutine waiting in Lock with the mutex held, for ever: the dispatch is
\* never over, the goroutine neither selects again nor stops, and no Reserve
\* call on that instance gets the mutex from then on. A Reserve call made by
\* the caller returns otherwise: as long as the process runs and no callback
\* of the instance waits in Reserve, the call that is pending returns.
C21_ReserveInCallbackBlocks ==
  /\ [][\A d \in Dispatchers :
          /\ (lpc[d] = "range" /\ invoked'[d] # invoked[d]
               /\ Len(invoked'[d]) > 0
               /\ BodyReserves(invoked'[d][Len(invoked'[d])].function))
                => Blocked(d)'
          /\ Blocked(d) => (Blocked(d)' /\ DispatchState(d)' = DispatchState(d))
          /\ (Blocked(d) /\ ReservePending(d)) => callerpc' = callerpc]_vars
  /\ [](\A d \in Dispatchers :
          Blocked(d)
            => /\ mutex[d] = "listen"
               /\ idx[d] <= Len(ranged[d])
               /\ ReservePending(d) => ~ENABLED ReserveAcquire
               /\ \A in \in ReentryInputs :
                    ~ENABLED ReserveLock(d, in[1], in[2], MaxReserved))
  /\ \A d \in Dispatchers :
       ReservePending(d) ~> (ReserveReturned \/ ~Running \/ Blocked(d))

\* The listening goroutine of d waits in the Lock of the Reserve its callback
\* called, after Close has cancelled its context, and the caller's own
\* Reserve on d waits in Lock behind it.
C21_Witness ==
  \E d \in Dispatchers :
    /\ Blocked(d)
    /\ callerpc.op = "Reserve" /\ callerpc.at = "lock" /\ callerpc.d = d
    /\ signalCh[d].buf # << >>

====
